---- MODULE Spec2Model ----
(***************************************************************************)
(* Model of src/main.py: the labeling-job check of the video labeling tool *)
(* template.  The handlers video_changed and check are the actions; the    *)
(* annotation data behind the platform API, the "Show all results"         *)
(* checkbox and the job buttons of the host UI are state.                  *)
(***************************************************************************)
EXTENDS Integers, Sequences, FiniteSets, TLC

\* ---------------------------------------------------------------- bounds
\* Main specification: at most MaxTags tags and MaxFigures figures exist
\* over all videos of the platform at any time.
MaxTags == 2
MaxFigures == 1
\* Specification of is_in_range alone: frames 0..MaxFrame, annotations with
\* at most MaxAnnFigures figures.
MaxFrame == 2
MaxAnnFigures == 2

\* ------------------------------------------------------------- constants
None == "None"
ok_status == "ok"
error_status == "error"
columns ==
  <<"Status", "Dataset name", "Video ID", "Video Name", "URL", "Object Name", "Frame Range">>

\* ------------------------------------------------- the platform's content
ClassNames == {"car", "person"}
ProjectIds == {1, 2}

\* api.dataset.get_list(project_id): project 1 has two datasets, project 2 one.
DatasetList(p) ==
  IF p = 1
  THEN << [id |-> 11, name |-> "ds1"], [id |-> 12, name |-> "ds2"] >>
  ELSE << [id |-> 21, name |-> "ds3"] >>

\* api.video.get_list(dataset.id): the dataset of project 2 holds no video.
VideoList(dataset_id) ==
  IF dataset_id = 11
  THEN << [id |-> 101, name |-> "a.mp4"], [id |-> 102, name |-> "b.mp4"] >>
  ELSE IF dataset_id = 12
       THEN << [id |-> 103, name |-> "c.mp4"] >>
       ELSE << >>

VideoIds == {101, 102, 103}

\* A VideoTag: its value and its frame range [start, end].
Tag(v, s, e) == [value |-> v, frame_range |-> <<s, e>>]
\* A figure: the name of the class of its video object, and its frame index.
Figure(n, f) == [obj_class_name |-> n, frame_index |-> f]
\* A VideoAnnotation: its tags and its figures, in order.
Annotation(ts, fs) == [tags |-> ts, figures |-> fs]

\* What the labelers add to the videos in the main specification.
LabelTags == {Tag("car", 0, 1), Tag("person", 1, 1)}
LabelFigures == {Figure("car", 1), Figure("person", 0)}

\* The inputs of is_in_range in its own specification.
Frames == 0..MaxFrame
RangeTags == {Tag(v, s, e) : v \in ClassNames, s \in Frames, e \in Frames}
RangeFigures == {Figure(n, f) : n \in ClassNames, f \in Frames}
SeqsUpTo(S, n) == UNION {[1..k -> S] : k \in 0..n}
RangeAnnotations == {Annotation(<< >>, fs) : fs \in SeqsUpTo(RangeFigures, MaxAnnFigures)}

VARIABLES
  api,                  \* global api: None until the first video_changed
  project_id,           \* global project_id
  project_metas,        \* dict project id -> downloaded project meta
  table_rows,           \* global list of result rows
  show_all_checked,     \* show_all_checkbox.is_checked()
  check_text,           \* Text widget: visible, status, text
  results_table,        \* Table widget: visible, data
  job_buttons_disabled, \* the host UI's job buttons, as left by img_ann_tool
  get_meta_calls,       \* number of api.project.get_meta calls per project id
  annotations,          \* the platform's annotation of each video
  last_check,           \* "none"; "checked" after a check() that completed, "rechecked"
                        \* after one that directly followed another; reset by any other event
  cache_hit,            \* the last video_changed found its project id in project_metas
  call                  \* one call of is_in_range: arguments and return value

vars ==
  <<api, project_id, project_metas, table_rows, show_all_checked, check_text,
    results_table, job_buttons_disabled, get_meta_calls, annotations, last_check, cache_hit,
    call>>

\* ------------------------------------------------------------ is_in_range
\* x in range(start, stop), for integers.
InPyRange(x, start, stop) == start <= x /\ x < stop

\* The last value of range(range_start, range_end + 1) is range_end.
range_stop_exclusive(range_end) == range_end
range_stop(range_end) == range_end + 1

RECURSIVE is_in_range_from(_, _, _)
is_in_range_from(tag, figures, i) ==
  IF i > Len(figures)
  THEN FALSE
  ELSE LET figure == figures[i]
           range_start == tag.frame_range[1]
           range_end == tag.frame_range[2]
       IN  IF /\ figure.obj_class_name = tag.value
              /\ InPyRange(figure.frame_index, range_start, range_stop(range_end))
           THEN TRUE
           ELSE is_in_range_from(tag, figures, i + 1)

is_in_range(tag, ann) == is_in_range_from(tag, ann.figures, 1)

\* -------------------------------------------------------- check_annotation
\* sly.video.get_labeling_tool_url(dataset.id, video_id, frame=..., link=True)
get_labeling_tool_url(dataset_id, video_id, frame) == <<"url", dataset_id, video_id, frame>>

\* if show_all_checkbox.is_checked() or status == error_status: append
append_result_checked_only(rows, result, status, checked) ==
  IF checked THEN Append(rows, result) ELSE rows
append_result_front(rows, result, status, checked) ==
  IF checked \/ status = error_status THEN <<result>> \o rows ELSE rows
append_result(rows, result, status, checked) ==
  IF checked \/ status = error_status THEN Append(rows, result) ELSE rows

RECURSIVE check_annotation_from(_, _, _, _, _, _, _)
check_annotation_from(rows, dataset, video_id, video_name, ann, checked, i) ==
  IF i > Len(ann.tags)
  THEN rows
  ELSE LET tag == ann.tags[i]
           status == IF is_in_range(tag, ann) THEN ok_status ELSE error_status
           result == << status,
                        dataset.name,
                        video_id,
                        video_name,
                        get_labeling_tool_url(dataset.id, video_id, tag.frame_range[1]),
                        tag.value,
                        tag.frame_range >>
       IN  check_annotation_from(append_result(rows, result, status, checked),
                                 dataset, video_id, video_name, ann, checked, i + 1)

check_annotation(rows, dataset, video_id, video_name, ann, checked) ==
  check_annotation_from(rows, dataset, video_id, video_name, ann, checked, 1)

\* ------------------------------------------------------------------ check
\* api.video.annotation.download_bulk + VideoAnnotation.from_json, per video id.
download_annotations(dataset_id, video_ids, anns) ==
  [i \in 1..Len(video_ids) |-> anns[video_ids[i]]]

\* for video_id, video_name, ann in zip(video_ids, video_names, anns)
RECURSIVE check_videos_from(_, _, _, _, _, _, _)
check_videos_from(rows, dataset, video_ids, video_names, anns, checked, i) ==
  IF i > Len(video_ids) \/ i > Len(video_names) \/ i > Len(anns)
  THEN rows
  ELSE check_videos_from(
         check_annotation(rows, dataset, video_ids[i], video_names[i], anns[i], checked),
         dataset, video_ids, video_names, anns, checked, i + 1)

\* for dataset in datasets
RECURSIVE check_datasets_from(_, _, _, _, _)
check_datasets_from(rows, datasets, all_anns, checked, i) ==
  IF i > Len(datasets)
  THEN rows
  ELSE LET dataset == datasets[i]
           video_infos == VideoList(dataset.id)
           video_ids == [k \in 1..Len(video_infos) |-> video_infos[k].id]
           video_names == [k \in 1..Len(video_infos) |-> video_infos[k].name]
           anns == download_annotations(dataset.id, video_ids, all_anns)
       IN  check_datasets_from(
             check_videos_from(rows, dataset, video_ids, video_names, anns, checked, 1),
             datasets, all_anns, checked, i + 1)

\* table_rows.clear()
keep_rows(rows) == rows
clear_rows(rows) == << >>

\* any([result[0] == error_status for result in table_rows])
any_error(rows) == \E i \in 1..Len(rows) : rows[i][1] = error_status

check ==
  IF api = None
  THEN \* api.dataset raises on None: the handler stops after the first three lines
       /\ table_rows' = clear_rows(table_rows)
       /\ results_table' = [results_table EXCEPT !.visible = FALSE]
       /\ check_text' = [check_text EXCEPT !.visible = FALSE]
       /\ last_check' = "none"
       /\ UNCHANGED <<api, project_id, project_metas, show_all_checked,
                      job_buttons_disabled, get_meta_calls, annotations, cache_hit, call>>
  ELSE LET rows == check_datasets_from(clear_rows(table_rows), DatasetList(project_id),
                                       annotations, show_all_checked, 1)
       IN  \* download_annotations reads project_metas[project_id], stored by video_changed
           /\ project_id \in DOMAIN project_metas
           /\ table_rows' = rows
           /\ results_table' = [visible |-> TRUE, columns |-> columns, data |-> rows]
           /\ check_text' =
                IF any_error(rows)
                THEN [visible |-> TRUE, status |-> "error",
                      text |-> "The labeling job is not meeting the requirements, please check the table"]
                ELSE [visible |-> TRUE, status |-> "success",
                      text |-> "The labeling job is meeting the requirements"]
           /\ last_check' = IF last_check = "none" THEN "checked" ELSE "rechecked"
           /\ UNCHANGED <<api, project_id, project_metas, show_all_checked,
                          job_buttons_disabled, get_meta_calls, annotations, cache_hit, call>>

\* ---------------------------------------------------------- video_changed
\* if event.project_id not in project_metas
never_cached(p, metas) == FALSE
is_cached(p, metas) == p \in DOMAIN metas

\* project_metas[event.project_id] = project_meta
store_meta(metas, p, meta) == [q \in DOMAIN metas \cup {p} |-> IF q = p THEN meta ELSE metas[q]]

video_changed(p) ==
  /\ api' = "api"
  /\ project_id' = p
  /\ cache_hit' = is_cached(p, project_metas)
  /\ IF ~is_cached(p, project_metas)
     THEN /\ get_meta_calls' = [get_meta_calls EXCEPT ![p] = @ + 1]
          /\ project_metas' =
               store_meta(project_metas, p, [project |-> p, download |-> get_meta_calls'[p]])
     ELSE UNCHANGED <<project_metas, get_meta_calls>>
  /\ job_buttons_disabled' = TRUE
  /\ last_check' = "none"
  /\ UNCHANGED <<table_rows, show_all_checked, check_text, results_table, annotations, call>>

\* ------------------------------------------------------- the environment
\* The user ticks or unticks "Show all results".
checkbox_changed ==
  /\ show_all_checked' = ~show_all_checked
  /\ last_check' = "none"
  /\ UNCHANGED <<api, project_id, project_metas, table_rows, check_text, results_table,
                 job_buttons_disabled, get_meta_calls, annotations, cache_hit, call>>

RECURSIVE SumLen(_, _, _)
SumLen(anns, S, field) ==
  IF S = {}
  THEN 0
  ELSE LET v == CHOOSE x \in S : TRUE
       IN  Len(anns[v][field]) + SumLen(anns, S \ {v}, field)

TotalTags == SumLen(annotations, VideoIds, "tags")
TotalFigures == SumLen(annotations, VideoIds, "figures")

RemoveAt(s, i) == [k \in 1..(Len(s) - 1) |-> IF k < i THEN s[k] ELSE s[k + 1]]

\* A labeler tags a video, draws a figure on it or deletes one of its figures.
tag_added(v, t) ==
  /\ TotalTags < MaxTags
  /\ annotations' = [annotations EXCEPT ![v].tags = Append(@, t)]
  /\ last_check' = "none"
  /\ UNCHANGED <<api, project_id, project_metas, table_rows, show_all_checked, check_text,
                 results_table, job_buttons_disabled, get_meta_calls, cache_hit, call>>

figure_added(v, f) ==
  /\ TotalFigures < MaxFigures
  /\ annotations' = [annotations EXCEPT ![v].figures = Append(@, f)]
  /\ last_check' = "none"
  /\ UNCHANGED <<api, project_id, project_metas, table_rows, show_all_checked, check_text,
                 results_table, job_buttons_disabled, get_meta_calls, cache_hit, call>>

figure_removed(v, i) ==
  /\ i \in 1..Len(annotations[v].figures)
  /\ annotations' = [annotations EXCEPT ![v].figures = RemoveAt(@, i)]
  /\ last_check' = "none"
  /\ UNCHANGED <<api, project_id, project_metas, table_rows, show_all_checked, check_text,
                 results_table, job_buttons_disabled, get_meta_calls, cache_hit, call>>

\* ---------------------------------------------------------- specification
NoCall ==
  [tag |-> Tag("car", 0, 0), ann |-> Annotation(<< >>, << >>), returned |-> FALSE, value |-> FALSE]

InitApp ==
  /\ api = None
  /\ project_id = None
  /\ project_metas = << >>
  /\ table_rows = << >>
  /\ show_all_checked = FALSE
  /\ check_text = [visible |-> FALSE, status |-> "text", text |-> ""]
  /\ results_table = [visible |-> FALSE, columns |-> columns, data |-> << >>]
  /\ job_buttons_disabled = FALSE
  /\ get_meta_calls = [p \in ProjectIds |-> 0]
  /\ annotations = [v \in VideoIds |-> Annotation(<< >>, << >>)]
  /\ last_check = "none"
  /\ cache_hit = FALSE

Init == InitApp /\ call = NoCall

Next ==
  \/ \E p \in ProjectIds : video_changed(p)
  \/ check
  \/ checkbox_changed
  \/ \E v \in VideoIds, t \in LabelTags : tag_added(v, t)
  \/ \E v \in VideoIds, f \in LabelFigures : figure_added(v, f)
  \/ \E v \in VideoIds, i \in 1..MaxFigures : figure_removed(v, i)

Spec == Init /\ [][Next]_vars

\* is_in_range alone: every tag and annotation of the bounded sets, then the call.
InitRange ==
  /\ InitApp
  /\ \E t \in RangeTags, a \in RangeAnnotations :
       call = [tag |-> t, ann |-> a, returned |-> FALSE, value |-> FALSE]

is_in_range_call ==
  /\ ~call.returned
  /\ call' = [call EXCEPT !.returned = TRUE, !.value = is_in_range(call.tag, call.ann)]
  /\ UNCHANGED <<api, project_id, project_metas, table_rows, show_all_checked, check_text,
                 results_table, job_buttons_disabled, get_meta_calls, annotations, last_check,
                 cache_hit>>

NextRange == is_in_range_call

SpecRange == InitRange /\ [][NextRange]_vars

\* ------------------------------------------------------------- properties
\* valid(t) of an annotation: some figure has the tag's value as its class name
\* and a frame index within the tag's inclusive frame range.
valid(t, a) ==
  \E k \in DOMAIN a.figures :
    /\ a.figures[k].obj_class_name = t.value
    /\ t.frame_range[1] <= a.figures[k].frame_index
    /\ a.figures[k].frame_index <= t.frame_range[2]

\* The tags of project p: <<d, v, t>> is tag t of video v of dataset d, by position.
TagRefs(p) ==
  UNION {UNION {{<<d, v, t>> :
                   t \in DOMAIN annotations[VideoList(DatasetList(p)[d].id)[v].id].tags} :
                v \in DOMAIN VideoList(DatasetList(p)[d].id)} :
         d \in DOMAIN DatasetList(p)}

RefDataset(p, r) == DatasetList(p)[r[1]]
RefVideo(p, r) == VideoList(RefDataset(p, r).id)[r[2]]
RefAnn(p, r) == annotations[RefVideo(p, r).id]
RefTag(p, r) == RefAnn(p, r).tags[r[3]]
RefValid(p, r) == valid(RefTag(p, r), RefAnn(p, r))

\* Dataset order, then video order, then tag order.
Before(q, r) ==
  \/ q[1] < r[1]
  \/ q[1] = r[1] /\ q[2] < r[2]
  \/ q[1] = r[1] /\ q[2] = r[2] /\ q[3] < r[3]

\* The tags a completed check reports, and the row of each.
Reported(p) == IF show_all_checked THEN TagRefs(p) ELSE {r \in TagRefs(p) : ~RefValid(p, r)}
Position(p, r) == 1 + Cardinality({q \in Reported(p) : Before(q, r)})
RowOf(p, r) ==
  << IF RefValid(p, r) THEN ok_status ELSE error_status,
     RefDataset(p, r).name,
     RefVideo(p, r).id,
     RefVideo(p, r).name,
     get_labeling_tool_url(RefDataset(p, r).id, RefVideo(p, r).id, RefTag(p, r).frame_range[1]),
     RefTag(p, r).value,
     RefTag(p, r).frame_range >>

CheckCompleted == last_check # "none"

\* C1: is_in_range(t, ann) returns true iff some figure of ann has the tag's value
\* as class name and a frame index in [s, e], both ends included; it returns
\* false for an annotation without figures and for a range with s > e.
C1_IsInRange ==
  call.returned =>
    /\ call.value <=> valid(call.tag, call.ann)
    /\ call.ann.figures = << >> => ~call.value
    /\ call.tag.frame_range[1] > call.tag.frame_range[2] => ~call.value

\* The second figure matches at the upper end of the range, the first has another class.
C1_Witness ==
  /\ call.returned
  /\ call.value
  /\ Len(call.ann.figures) = 2
  /\ call.ann.figures[1].obj_class_name # call.tag.value
  /\ call.ann.figures[2].frame_index = call.tag.frame_range[2]
  /\ call.tag.frame_range[1] < call.tag.frame_range[2]

\* C2: after check() completes, check_text has status "success" iff every tag of
\* every video of every dataset of the current project is valid, and "error"
\* otherwise, whatever the state of the checkbox; a project without tags passes.
C2_Verdict ==
  CheckCompleted =>
    /\ check_text.visible
    /\ check_text.status \in {"success", "error"}
    /\ check_text.status = "success" <=> \A r \in TagRefs(project_id) : RefValid(project_id, r)

\* Unchecked box, one valid and one invalid tag: the job fails.
C2_Witness ==
  /\ CheckCompleted
  /\ ~show_all_checked
  /\ check_text.status = "error"
  /\ \E r \in TagRefs(project_id) : RefValid(project_id, r)
  /\ \E r \in TagRefs(project_id) : ~RefValid(project_id, r)

\* C3: after a check() with an invalid tag the job buttons are locked, and after a
\* check() in which every tag is valid the job buttons are unlocked.
C3_ButtonsFollowVerdict ==
  CheckCompleted =>
    /\ check_text.status = "error" => job_buttons_disabled
    /\ check_text.status = "success" => ~job_buttons_disabled

\* C4: after check() completes, table_rows holds exactly one row per reported tag
\* (the invalid tags when the box is unchecked, every tag when it is checked), in
\* dataset order, then video order, then tag order, and no ok row when unchecked.
C4_Rows ==
  CheckCompleted =>
    /\ Len(table_rows) = Cardinality(Reported(project_id))
    /\ \A r \in Reported(project_id) :
         table_rows[Position(project_id, r)] = RowOf(project_id, r)
    /\ ~show_all_checked => \A i \in DOMAIN table_rows : table_rows[i][1] # ok_status
    /\ show_all_checked => Len(table_rows) = Cardinality(TagRefs(project_id))

\* Two different rows are in the table.
C4_Witness ==
  /\ CheckCompleted
  /\ Len(table_rows) = 2
  /\ table_rows[1] # table_rows[2]

\* C5: table_rows and the table shown hold only the rows of the most recent check:
\* a check() that directly follows a completed check() leaves the rows, the table
\* and the verdict as they were.
C5_NoAccumulation ==
  /\ [](CheckCompleted =>
          /\ results_table.visible
          /\ results_table.data = table_rows
          /\ Len(table_rows) <= Cardinality(TagRefs(project_id)))
  /\ [][CheckCompleted /\ last_check' = "rechecked"
          => UNCHANGED <<table_rows, results_table, check_text>>]_vars

\* A second check in a row, with rows in the table.
C5_Witness ==
  /\ last_check = "rechecked"
  /\ table_rows # << >>

\* C6: the meta of each project id is downloaded at most once; a video_changed for
\* a cached project id downloads nothing, and an entry of project_metas is never
\* removed or replaced.
C6_MetaOnce ==
  /\ [](\A p \in ProjectIds : get_meta_calls[p] <= 1)
  /\ [][\A p \in DOMAIN project_metas :
          /\ p \in DOMAIN project_metas'
          /\ project_metas'[p] = project_metas[p]
          /\ get_meta_calls'[p] = get_meta_calls[p]]_vars

\* A video_changed event found its project id in the cache.
C6_Witness ==
  /\ cache_hit
  /\ project_id \in DOMAIN project_metas
  /\ get_meta_calls[project_id] = 1

====
